---- MODULE Spec2Model ----
(***************************************************************************)
(* nginx-k8s-loadbalancer: internal/configuration/settings.go.             *)
(*                                                                         *)
(* Settings keeps NginxPlusHosts in step with the ConfigMaps of the "nkl"  *)
(* namespace.  A shared informer, started by Run on its own goroutine,     *)
(* calls handleAddEvent / handleUpdateEvent / handleDeleteEvent serially;  *)
(* other goroutines read the exported field NginxPlusHosts with no lock.   *)
(***************************************************************************)
EXTENDS Naturals, Sequences, FiniteSets

(* ------------------------------ bounds --------------------------------- *)

\* Longest value of a ConfigMap data field, in characters.
MaxLen == 1

\* Most objects the informer's store holds at a time.
MaxObjects == 2

(* ------------------------------ strings -------------------------------- *)

\* A Go string is a sequence of characters; "," is the separator of line 185.
Sep == ","

Chars == {"a", Sep}

Strings == UNION {[1..n -> Chars] : n \in 0..MaxLen}

\* strings.Index(s, ","), 1-based; 0 when s holds no separator.
RECURSIVE IndexFrom(_, _)
IndexFrom(s, i) ==
    IF i > Len(s) THEN 0
    ELSE IF s[i] = Sep THEN i
    ELSE IndexFrom(s, i + 1)

\* strings.Split(s, ","): cut at every separator; the remainder is the last
\* element, so the result always has (number of separators) + 1 elements.
RECURSIVE Split(_)
Split(s) ==
    LET i == IndexFrom(s, 1)
    IN  IF i = 0 THEN <<s>>
        ELSE <<SubSeq(s, 1, i - 1)>> \o Split(SubSeq(s, i + 1, Len(s)))

(* ------------------------------ slices --------------------------------- *)

\* A Go slice value is three machine words: data pointer, length, capacity.
\* Backing arrays are never written after allocation, so a pointer is
\* identified with the array it points to.
Words == {"ptr", "len", "cap"}

NilPtr == [isNil |-> TRUE, arr |-> <<>>]

PtrTo(a) == [isNil |-> FALSE, arr |-> a]

\* The zero value of a []string field.
NilSlice == [ptr |-> NilPtr, len |-> 0, cap |-> 0]

\* A freshly allocated slice holding exactly the elements of list
\* ([]string{} for the empty list: non-nil, length 0).
MakeSlice(list) == [ptr |-> PtrTo(list), len |-> Len(list), cap |-> Len(list)]

(* ------------------------------ objects -------------------------------- *)

HostsKey == "nginx-hosts"

OtherKey == "other-key"

\* interface{} values handed to the handlers.  Data is the ConfigMap's
\* map[string]string as a set of <<key, value>> pairs.
NilObj == [type |-> "nil", Data |-> {}]

NotConfigMap == [type |-> "Other", Data |-> {}]

ConfigMap(data) == [type |-> "ConfigMap", Data |-> data]

ConfigMaps ==
    {ConfigMap({<<HostsKey, s>>}) : s \in Strings}
        \cup {ConfigMap({<<OtherKey, <<"a">>>>})}

Objects == ConfigMaps \cup {NotConfigMap}

\* configMap, ok := obj.(*corev1.ConfigMap)
TypeAssert(obj) == obj.type = "ConfigMap"

\* hosts, found := configMap.Data[key]
Found(obj, key) == \E p \in obj.Data : p[1] = key

Lookup(obj, key) == (CHOOSE p \in obj.Data : p[1] = key)[2]

(* ------------------------------ handlers ------------------------------- *)

\* What a handler call does to NginxPlusHosts: store the slice hosts, or
\* return without touching the field.
NoStore == [store |-> FALSE, hosts |-> NilSlice]

parseHosts(hosts) == Split(hosts)

updateHosts(hosts) == [store |-> TRUE, hosts |-> MakeSlice(hosts)]

\* handleUpdateEvent clearing the list when the type assertion fails.
handleUpdateEvent_ClearOnBadType(obj, other) ==
    IF ~TypeAssert(obj) THEN updateHosts(<<>>)
    ELSE IF ~Found(obj, HostsKey) THEN NoStore
    ELSE updateHosts(parseHosts(Lookup(obj, HostsKey)))

handleUpdateEvent(obj, other) ==
    IF ~TypeAssert(obj) THEN NoStore
    ELSE IF ~Found(obj, HostsKey) THEN NoStore
    ELSE updateHosts(parseHosts(Lookup(obj, HostsKey)))

\* handleAddEvent passing its object as the second argument.
handleAddEvent_Swapped(obj) == handleUpdateEvent(NilObj, obj)

handleAddEvent(obj) == handleUpdateEvent(obj, NilObj)

\* handleDeleteEvent clearing the list only for a ConfigMap.
handleDeleteEvent_Checked(obj) ==
    IF TypeAssert(obj) THEN updateHosts(<<>>) ELSE NoStore

handleDeleteEvent(obj) == updateHosts(<<>>)

(* ------------------------------ events --------------------------------- *)

\* A notification of the informer.  cache.ResourceEventHandlerFuncs calls
\* AddFunc(obj), UpdateFunc(oldObj, newObj) and DeleteFunc(obj).
NoEvent == [kind |-> "None", oldObj |-> NilObj, newObj |-> NilObj]

Added(obj) == [kind |-> "Added", oldObj |-> NilObj, newObj |-> obj]

Updated(old, new) == [kind |-> "Updated", oldObj |-> old, newObj |-> new]

Deleted(obj) == [kind |-> "Deleted", oldObj |-> obj, newObj |-> NilObj]

\* The handlers as registered: AddFunc, UpdateFunc, DeleteFunc.
AddFunc(ev) == handleAddEvent(ev.newObj)

UpdateFunc(ev) == handleUpdateEvent(ev.oldObj, ev.newObj)

DeleteFunc(ev) == handleDeleteEvent(ev.oldObj)

Invoke(ev) ==
    CASE ev.kind = "Added" -> AddFunc(ev)
      [] ev.kind = "Updated" -> UpdateFunc(ev)
      [] ev.kind = "Deleted" -> DeleteFunc(ev)

(* ------------------------------ registration --------------------------- *)

\* The callbacks initializeEventListeners hands to the informer.
Handlers ==
    [AddFunc |-> "handleAddEvent",
     UpdateFunc |-> "handleUpdateEvent",
     DeleteFunc |-> "handleDeleteEvent"]

\* An error is the chain of its messages, outermost first; nil is <<>>.
NilError == <<>>

Wrap(msg, err) == <<msg>> \o err

\* Nothing was asked of the informer yet.
NoRegistration == [answers |-> <<>>, handlers |-> <<>>, err |-> NilError]

\* initializeEventListeners calling AddEventHandler again after an error.
initializeEventListeners_Retry(addErr) ==
    IF addErr = NilError
    THEN [answers |-> <<addErr>>, handlers |-> <<Handlers>>, err |-> NilError]
    ELSE [answers |-> <<addErr, NilError>>, handlers |-> <<Handlers>>,
          err |-> NilError]

\* initializeEventListeners: one call of s.informer.AddEventHandler(handlers),
\* which answers addErr; answers lists what each call made was answered,
\* handlers the registrations the informer holds, err the error returned.
initializeEventListeners(addErr) ==
    IF addErr = NilError
    THEN [answers |-> <<addErr>>, handlers |-> <<Handlers>>, err |-> NilError]
    ELSE [answers |-> <<addErr>>, handlers |-> <<>>,
          err |-> Wrap("error occurred registering event handlers", addErr)]

\* The answers AddEventHandler can give.
AddEventHandlerErrors == {NilError, <<"handler was not added">>}

(* ------------------------------ certificates --------------------------- *)

\* Most PEM blocks in one field of the certificate bundle.
MaxBlocks == 1

\* The content of a PEM block: the DER of a well-formed certificate for the
\* public key A or B, the DER of the private key of A, or bytes that are
\* neither.
CertificateDers == {"certA", "certB"}

PrivateKeyDers == {"keyA"}

Junk == "junk"

PublicKeyOf(der) ==
    CASE der = "certA" -> "A"
      [] der = "certB" -> "B"
      [] der = "keyA" -> "A"

Blocks ==
    {[Type |-> "CERTIFICATE", Bytes |-> d] : d \in CertificateDers \cup {Junk}}
        \cup {[Type |-> "PRIVATE KEY", Bytes |-> d] : d \in PrivateKeyDers \cup {Junk}}

\* A []byte of PEM data is the sequence of the blocks it encodes; data with
\* no block in it is the empty sequence.
PEMs == UNION {[1..n -> Blocks] : n \in 0..MaxBlocks}

\* certification.Certificates: CA certificate, client certificate, client key.
Bundles == [ca : PEMs, clientCert : PEMs, clientKey : PEMs]

GetCACertificate(certificates) == certificates.ca

\* The client key first, the client certificate second: the order of the
\* parameters of buildCertificates.
GetClientCertificate(certificates) ==
    <<certificates.clientKey, certificates.clientCert>>

\* pem.Decode: the first block of the data, if there is one, and the rest.
pemDecode(data) ==
    IF data = <<>>
    THEN [found |-> FALSE, block |-> [Type |-> "", Bytes |-> Junk], rest |-> <<>>]
    ELSE [found |-> TRUE, block |-> Head(data), rest |-> Tail(data)]

\* x509.ParseCertificate succeeds on the DER of a well-formed certificate.
x509ParseCertificate(der) ==
    IF der \in CertificateDers
    THEN [cert |-> der, err |-> NilError]
    ELSE [cert |-> Junk, err |-> <<"x509: malformed certificate">>]

IsCertificateBlock(b) == b.Type = "CERTIFICATE"

IsPrivateKeyBlock(b) == b.Type = "PRIVATE KEY"

\* The zero tls.Certificate.
NoCertificate == [Certificate |-> <<>>, PrivateKey |-> ""]

\* tls.X509KeyPair(certPEMBlock, keyPEMBlock): the CERTIFICATE blocks of the
\* first argument, the first private key block of the second, the leaf
\* certificate parsed, the key parsed, and the two public keys compared.
tlsX509KeyPair(certPEMBlock, keyPEMBlock) ==
    LET certs == SelectSeq(certPEMBlock, IsCertificateBlock)
        keys == SelectSeq(keyPEMBlock, IsPrivateKeyBlock)
    IN  IF certs = <<>>
        THEN [certificate |-> NoCertificate,
              err |-> <<"tls: failed to find any PEM data in certificate input">>]
        ELSE IF keys = <<>>
        THEN [certificate |-> NoCertificate,
              err |-> <<"tls: failed to find any PEM data in key input">>]
        ELSE IF x509ParseCertificate(certs[1].Bytes).err # NilError
        THEN [certificate |-> NoCertificate,
              err |-> x509ParseCertificate(certs[1].Bytes).err]
        ELSE IF keys[1].Bytes \notin PrivateKeyDers
        THEN [certificate |-> NoCertificate,
              err |-> <<"tls: failed to parse private key">>]
        ELSE IF PublicKeyOf(keys[1].Bytes) # PublicKeyOf(certs[1].Bytes)
        THEN [certificate |-> NoCertificate,
              err |-> <<"tls: private key does not match public key">>]
        ELSE [certificate |->
                  [Certificate |-> [i \in 1..Len(certs) |-> certs[i].Bytes],
                   PrivateKey |-> PublicKeyOf(keys[1].Bytes)],
              err |-> NilError]

(* ------------------------------ TLS factory ---------------------------- *)

\* An *x509.CertPool: nil, or the set of the certificates added to it.
NilPool == [isNil |-> TRUE, certs |-> {}]

PoolOf(cert) == [isNil |-> FALSE, certs |-> {cert}]

\* A *tls.Config with the three fields the factory sets; the fields it does
\* not set hold their zero value (nil pool, no certificate).
NilConfig ==
    [isNil |-> TRUE, InsecureSkipVerify |-> FALSE, RootCAs |-> NilPool,
     Certificates |-> <<>>]

Config(skipVerify, rootCAs, certs) ==
    [isNil |-> FALSE, InsecureSkipVerify |-> skipVerify, RootCAs |-> rootCAs,
     Certificates |-> certs]

\* What a builder returns, with calls listing, in order, the accessors of the
\* bundle and the parsers it called.
Result(config, err, calls) == [config |-> config, err |-> err, calls |-> calls]

\* buildCaCertificatePool returning an empty pool when no block is decoded.
buildCaCertificatePool_Lenient(caCert) ==
    LET d == pemDecode(caCert)
        c == x509ParseCertificate(d.block.Bytes)
    IN  IF ~d.found
        THEN [pool |-> [isNil |-> FALSE, certs |-> {}],
              err |-> NilError,
              calls |-> <<"pem.Decode">>]
        ELSE IF c.err # NilError
        THEN [pool |-> NilPool,
              err |-> Wrap("error parsing certificate", c.err),
              calls |-> <<"pem.Decode", "x509.ParseCertificate">>]
        ELSE [pool |-> PoolOf(c.cert),
              err |-> NilError,
              calls |-> <<"pem.Decode", "x509.ParseCertificate">>]

buildCaCertificatePool(caCert) ==
    LET d == pemDecode(caCert)
        c == x509ParseCertificate(d.block.Bytes)
    IN  IF ~d.found
        THEN [pool |-> NilPool,
              err |-> <<"failed to decode PEM block containing CA certificate">>,
              calls |-> <<"pem.Decode">>]
        ELSE IF c.err # NilError
        THEN [pool |-> NilPool,
              err |-> Wrap("error parsing certificate", c.err),
              calls |-> <<"pem.Decode", "x509.ParseCertificate">>]
        ELSE [pool |-> PoolOf(c.cert),
              err |-> NilError,
              calls |-> <<"pem.Decode", "x509.ParseCertificate">>]

\* buildCertificates handing its arguments to X509KeyPair in its own order.
buildCertificates_Swapped(privateKeyPEM, certificatePEM) ==
    LET r == tlsX509KeyPair(privateKeyPEM, certificatePEM)
    IN  [certificate |-> r.certificate, err |-> r.err,
         calls |-> <<"tls.X509KeyPair">>]

buildCertificates(privateKeyPEM, certificatePEM) ==
    LET r == tlsX509KeyPair(certificatePEM, privateKeyPEM)
    IN  [certificate |-> r.certificate, err |-> r.err,
         calls |-> <<"tls.X509KeyPair">>]

buildSelfSignedTlsConfig(certificates) ==
    LET p == buildCaCertificatePool(GetCACertificate(certificates))
        calls == <<"GetCACertificate">> \o p.calls
    IN  IF p.err # NilError
        THEN Result(NilConfig, p.err, calls)
        ELSE Result(Config(FALSE, p.pool, <<>>), NilError, calls)

\* buildSelfSignedMtlsConfig dropping the error of buildCertificates.
buildSelfSignedMtlsConfig_IgnoreKeyPair(certificates) ==
    LET p == buildCaCertificatePool(GetCACertificate(certificates))
        pcalls == <<"GetCACertificate">> \o p.calls
        kc == GetClientCertificate(certificates)
        c == buildCertificates(kc[1], kc[2])
        calls == pcalls \o <<"GetClientCertificate">> \o c.calls
    IN  IF p.err # NilError
        THEN Result(NilConfig, p.err, pcalls)
        ELSE Result(Config(FALSE, p.pool, <<c.certificate>>), NilError, calls)

\* buildSelfSignedMtlsConfig building the client certificate first.
buildSelfSignedMtlsConfig_ClientFirst(certificates) ==
    LET kc == GetClientCertificate(certificates)
        c == buildCertificates(kc[1], kc[2])
        ccalls == <<"GetClientCertificate">> \o c.calls
        p == buildCaCertificatePool(GetCACertificate(certificates))
        calls == ccalls \o <<"GetCACertificate">> \o p.calls
    IN  IF c.err # NilError
        THEN Result(NilConfig, c.err, ccalls)
        ELSE IF p.err # NilError
        THEN Result(NilConfig, p.err, calls)
        ELSE Result(Config(FALSE, p.pool, <<c.certificate>>), NilError, calls)

buildSelfSignedMtlsConfig(certificates) ==
    LET p == buildCaCertificatePool(GetCACertificate(certificates))
        pcalls == <<"GetCACertificate">> \o p.calls
        kc == GetClientCertificate(certificates)
        c == buildCertificates(kc[1], kc[2])
        calls == pcalls \o <<"GetClientCertificate">> \o c.calls
    IN  IF p.err # NilError
        THEN Result(NilConfig, p.err, pcalls)
        ELSE IF c.err # NilError
        THEN Result(NilConfig, c.err, calls)
        ELSE Result(Config(FALSE, p.pool, <<c.certificate>>), NilError, calls)

\* buildBasicTlsConfig never skipping verification.
buildBasicTlsConfig_NoSkip(skipVerify) == Config(FALSE, NilPool, <<>>)

buildBasicTlsConfig(skipVerify) == Config(skipVerify, NilPool, <<>>)

\* buildCaTlsConfig returning a configuration along with the error.
buildCaTlsConfig_Partial(certificates) ==
    LET kc == GetClientCertificate(certificates)
        c == buildCertificates(kc[1], kc[2])
        calls == <<"GetClientCertificate">> \o c.calls
    IN  Result(Config(FALSE, NilPool, <<c.certificate>>), c.err, calls)

buildCaTlsConfig(certificates) ==
    LET kc == GetClientCertificate(certificates)
        c == buildCertificates(kc[1], kc[2])
        calls == <<"GetClientCertificate">> \o c.calls
    IN  IF c.err # NilError
        THEN Result(NilConfig, c.err, calls)
        ELSE Result(Config(FALSE, NilPool, <<c.certificate>>), NilError, calls)

\* NewTlsConfig with a case for "no-tls" and an error for any other mode.
NewTlsConfig_Strict(settings) ==
    CASE settings.TlsMode = "ss-tls" ->
             buildSelfSignedTlsConfig(settings.Certificates)
      [] settings.TlsMode = "ss-mtls" ->
             buildSelfSignedMtlsConfig(settings.Certificates)
      [] settings.TlsMode = "ca-tls" ->
             Result(buildBasicTlsConfig(FALSE), NilError, <<>>)
      [] settings.TlsMode = "ca-mtls" ->
             buildCaTlsConfig(settings.Certificates)
      [] settings.TlsMode = "no-tls" ->
             Result(buildBasicTlsConfig(TRUE), NilError, <<>>)
      [] OTHER ->
             Result(NilConfig, <<"unknown TLS mode">>, <<>>)

NewTlsConfig(settings) ==
    CASE settings.TlsMode = "ss-tls" ->
             buildSelfSignedTlsConfig(settings.Certificates)
      [] settings.TlsMode = "ss-mtls" ->
             buildSelfSignedMtlsConfig(settings.Certificates)
      [] settings.TlsMode = "ca-tls" ->
             Result(buildBasicTlsConfig(FALSE), NilError, <<>>)
      [] settings.TlsMode = "ca-mtls" ->
             buildCaTlsConfig(settings.Certificates)
      [] OTHER ->
             Result(buildBasicTlsConfig(TRUE), NilError, <<>>)

\* The modes of the switch, and strings that are none of them.
KnownModes == {"ss-tls", "ss-mtls", "ca-tls", "ca-mtls"}

Modes == KnownModes \cup {"no-tls", "", "ss-tsl"}

(* ------------------------------ state ---------------------------------- *)

VARIABLES
    NginxPlusHosts,  \* Settings.NginxPlusHosts as it lies in memory
    initPc,          \* Initialize: "new", "ok", "failed"
    runPc,           \* Run: "init", "waiting", "returned"
    ctxDone,         \* s.Context.Done() is closed
    infPc,           \* informer goroutine: "none", "idle", "handling",
                     \*   "storing", "stopped", "panicked"
    existing,        \* the objects of the namespace the informer knows
    cur,             \* the notification last handed to a handler
    newHosts,        \* the slice updateHosts is assigning
    todo,            \* the words of that assignment not yet written
    procAlive,       \* the hosting process has not been terminated
    observed,        \* what the step just taken loaded, if it was a reader's load
    registration,    \* what Initialize did with informer.AddEventHandler
    TlsMode,         \* settings.TlsMode handed to NewTlsConfig
    Certificates,    \* settings.Certificates handed to NewTlsConfig
    returned         \* what NewTlsConfig returned, once it was called

vars == <<NginxPlusHosts, initPc, runPc, ctxDone, infPc, existing, cur,
          newHosts, todo, procAlive, observed, registration, TlsMode,
          Certificates, returned>>

\* The state NewTlsConfig reads and writes.
tlsVars == <<TlsMode, Certificates, returned>>

\* A step that is no load of the field by a reader.
NoRead == [read |-> FALSE, val |-> NilSlice]

\* NewSettings sets no NginxPlusHosts field: it holds the zero value.
NewSettings ==
    /\ NginxPlusHosts = NilSlice
    /\ initPc = "new"
    /\ runPc = "init"
    /\ ctxDone = FALSE
    /\ infPc = "none"
    /\ existing = {}
    /\ cur = NoEvent
    /\ newHosts = NilSlice
    /\ todo = {}
    /\ procAlive = TRUE
    /\ observed = NoRead
    /\ registration = NoRegistration

\* NewTlsConfig has not been called.
NotCalled == [called |-> FALSE, config |-> NilConfig, err |-> NilError,
              calls |-> <<>>]

\* The settings when no TLS configuration is asked for.
TlsUnused ==
    /\ TlsMode = ""
    /\ Certificates = [ca |-> <<>>, clientCert |-> <<>>, clientKey |-> <<>>]
    /\ returned = NotCalled

Init == NewSettings /\ TlsUnused

(* ------------------------------ lifecycle ------------------------------ *)

\* Initialize: buildInformer never fails and sets s.informer; the handlers
\* are registered unless informer.AddEventHandler returns an error, which
\* Initialize wraps and returns.
Initialize ==
    /\ procAlive
    /\ initPc = "new"
    /\ \E addErr \in AddEventHandlerErrors :
           LET r == initializeEventListeners(addErr)
           IN  IF r.err = NilError
               THEN /\ initPc' = "ok"
                    /\ registration' = r
               ELSE /\ initPc' = "failed"
                    /\ registration' =
                           [r EXCEPT !.err =
                               Wrap("error occurred initializing event listeners",
                                    r.err)]
    /\ UNCHANGED <<NginxPlusHosts, runPc, ctxDone, infPc, existing, cur,
                   newHosts, todo, procAlive>>
    /\ observed' = NoRead
    /\ UNCHANGED tlsVars

\* Run up to its receive: defer HandleCrash on the caller's goroutine, start
\* informer.Run on a new goroutine, block on s.Context.Done().
Run ==
    /\ procAlive
    /\ initPc # "new"
    /\ runPc = "init"
    /\ runPc' = "waiting"
    /\ infPc' = "idle"
    /\ UNCHANGED <<NginxPlusHosts, initPc, ctxDone, existing, cur, newHosts,
                   todo, procAlive>>
    /\ observed' = NoRead
    /\ UNCHANGED <<registration, tlsVars>>

\* The owner of the context cancels it.
Cancel ==
    /\ procAlive
    /\ ~ctxDone
    /\ ctxDone' = TRUE
    /\ UNCHANGED <<NginxPlusHosts, initPc, runPc, infPc, existing, cur,
                   newHosts, todo, procAlive>>
    /\ observed' = NoRead
    /\ UNCHANGED <<registration, tlsVars>>

\* <-s.Context.Done() receives and Run returns; it waits for nothing else.
RunReturn ==
    /\ procAlive
    /\ runPc = "waiting"
    /\ ctxDone
    /\ runPc' = "returned"
    /\ UNCHANGED <<NginxPlusHosts, initPc, ctxDone, infPc, existing, cur,
                   newHosts, todo, procAlive>>
    /\ observed' = NoRead
    /\ UNCHANGED <<registration, tlsVars>>

(* ------------------------------ informer ------------------------------- *)

\* The informer goroutine takes the next notification and calls the handler
\* registered for it.  It delivers nothing new once its stop channel is closed.
Deliver(ev) ==
    /\ procAlive
    /\ initPc = "ok"
    /\ infPc = "idle"
    /\ ~ctxDone
    /\ infPc' = "handling"
    /\ cur' = ev
    /\ UNCHANGED <<NginxPlusHosts, initPc, runPc, ctxDone, newHosts, todo,
                   procAlive>>
    /\ observed' = NoRead
    /\ UNCHANGED <<registration, tlsVars>>

\* An object appears in the namespace.
DeliverAdded ==
    \E obj \in Objects :
        /\ obj \notin existing
        /\ Cardinality(existing) < MaxObjects
        /\ existing' = existing \cup {obj}
        /\ Deliver(Added(obj))

\* An object of the namespace changes; it stays an object of its type.
DeliverUpdated ==
    \E old \in existing : \E new \in Objects :
        /\ new.type = old.type
        /\ existing' = (existing \ {old}) \cup {new}
        /\ Deliver(Updated(old, new))

\* An object of the namespace goes away.
DeliverDeleted ==
    \E obj \in existing :
        /\ existing' = existing \ {obj}
        /\ Deliver(Deleted(obj))

\* The handler body up to its return or to the assignment of updateHosts.
Handle ==
    /\ procAlive
    /\ infPc = "handling"
    /\ LET r == Invoke(cur)
       IN  IF r.store
           THEN /\ infPc' = "storing"
                /\ newHosts' = r.hosts
                /\ todo' = Words
           ELSE /\ infPc' = "idle"
                /\ UNCHANGED <<newHosts, todo>>
    /\ UNCHANGED <<NginxPlusHosts, initPc, runPc, ctxDone, existing, cur,
                   procAlive>>
    /\ observed' = NoRead
    /\ UNCHANGED <<registration, tlsVars>>

\* s.NginxPlusHosts = hosts: a plain multi-word store with no lock and no
\* atomic, so it is written a word at a time, in an order the build chooses;
\* the handler returns after the last word.
StoreWord(w) ==
    /\ procAlive
    /\ infPc = "storing"
    /\ w \in todo
    /\ NginxPlusHosts' = [NginxPlusHosts EXCEPT ![w] = newHosts[w]]
    /\ todo' = todo \ {w}
    /\ infPc' = IF todo' = {} THEN "idle" ELSE "storing"
    /\ UNCHANGED <<initPc, runPc, ctxDone, existing, cur, newHosts,
                   procAlive>>
    /\ observed' = NoRead
    /\ UNCHANGED <<registration, tlsVars>>

Store == \E w \in Words : StoreWord(w)

\* Between two notifications the informer sees its stop channel closed.
InformerStop ==
    /\ procAlive
    /\ infPc = "idle"
    /\ ctxDone
    /\ infPc' = "stopped"
    /\ UNCHANGED <<NginxPlusHosts, initPc, runPc, ctxDone, existing, cur,
                   newHosts, todo, procAlive>>
    /\ observed' = NoRead
    /\ UNCHANGED <<registration, tlsVars>>

\* The calls each goroutine of Run has deferred: HandleCrash on the goroutine
\* that called Run, nothing on the goroutine of the go statement.
Deferred(g) == IF g = "Run" THEN {"HandleCrash"} ELSE {}

\* A panic is seen only by the deferred calls of the goroutine it is raised
\* on; with none to recover it, the Go runtime terminates the process.
Recovered(g) == "HandleCrash" \in Deferred(g)

\* The watch-processing loop panics.
InformerPanic ==
    /\ procAlive
    /\ infPc = "idle"
    /\ infPc' = "panicked"
    /\ procAlive' = Recovered("informer")
    /\ UNCHANGED <<NginxPlusHosts, initPc, runPc, ctxDone, existing, cur,
                   newHosts, todo>>
    /\ observed' = NoRead
    /\ UNCHANGED <<registration, tlsVars>>

(* ------------------------------ reader --------------------------------- *)

\* Another goroutine loads the exported field: it gets the three words as
\* they lie in memory at that moment.
Read ==
    /\ procAlive
    /\ observed' = [read |-> TRUE, val |-> NginxPlusHosts]
    /\ UNCHANGED <<registration, tlsVars>>
    /\ UNCHANGED <<NginxPlusHosts, initPc, runPc, ctxDone, infPc, existing,
                   cur, newHosts, todo, procAlive>>

(* ------------------------------ TLS configuration ---------------------- *)

\* Any mode with any bundle.
TlsInit ==
    /\ NewSettings
    /\ TlsMode \in Modes
    /\ Certificates \in Bundles
    /\ returned = NotCalled

\* NewTlsConfig(settings) is called and returns.
CallNewTlsConfig ==
    /\ ~returned.called
    /\ LET r == NewTlsConfig([TlsMode |-> TlsMode, Certificates |-> Certificates])
       IN  returned' = [called |-> TRUE, config |-> r.config, err |-> r.err,
                        calls |-> r.calls]
    /\ UNCHANGED <<NginxPlusHosts, initPc, runPc, ctxDone, infPc, existing,
                   cur, newHosts, todo, procAlive, observed, registration,
                   TlsMode, Certificates>>

TlsNext == CallNewTlsConfig

TlsSpec == TlsInit /\ [][TlsNext]_vars

(* ------------------------------ specification -------------------------- *)

Next ==
    \/ Initialize
    \/ Run
    \/ Cancel
    \/ RunReturn
    \/ DeliverAdded
    \/ DeliverUpdated
    \/ DeliverDeleted
    \/ Handle
    \/ Store
    \/ InformerStop
    \/ InformerPanic
    \/ Read

Spec == Init /\ [][Next]_vars

\* The Go scheduler runs every runnable goroutine: the receive of Run, the
\* handler in progress and the informer's stop are not postponed forever.
FairSpec ==
    /\ Spec
    /\ WF_vars(RunReturn)
    /\ WF_vars(Handle)
    /\ WF_vars(Store)
    /\ WF_vars(InformerStop)

(* ------------------------------ properties ----------------------------- *)

\* A slice value as some assignment produced it: the zero value, or a pointer
\* with the length and capacity of its own array.
WellFormed(h) ==
    \/ h = NilSlice
    \/ /\ ~h.ptr.isNil
       /\ h.len = Len(h.ptr.arr)
       /\ h.cap = Len(h.ptr.arr)

\* The step on which the handler called for cur returns.
HandlerReturns == infPc \in {"handling", "storing"} /\ infPc' = "idle"

\* cur is an Added or Updated notification about obj-shaped payloads.
AddedOrUpdated == cur.kind \in {"Added", "Updated"}

\* C1: when the handler of an Updated notification returns and the
\* ConfigMap the notification is about holds "nginx-hosts" = s, HostList is
\* exactly split(s, ","): one element more than s has separators, "" giving
\* the one-element list of the empty string.
C1_UpdatedSetsSplit ==
    [][(/\ HandlerReturns
        /\ cur.kind = "Updated"
        /\ TypeAssert(cur.newObj)
        /\ Found(cur.newObj, HostsKey))
       => NginxPlusHosts' = MakeSlice(Split(Lookup(cur.newObj, HostsKey)))]_vars

\* C2: when the handler of a Deleted notification returns, HostList is the
\* empty, non-nil sequence, whatever it was before and whatever object the
\* notification carries.
C2_DeletedClears ==
    [][(HandlerReturns /\ cur.kind = "Deleted")
       => NginxPlusHosts' = MakeSlice(<<>>)]_vars

\* A Deleted notification carrying no ConfigMap has been handled.
C2_Witness ==
    /\ infPc = "idle"
    /\ cur.kind = "Deleted"
    /\ ~TypeAssert(cur.oldObj)
    /\ NginxPlusHosts = MakeSlice(<<>>)

\* C3: no step of the handler of an Added or Updated notification whose
\* ConfigMap has no "nginx-hosts" key changes HostList.
C3_MissingKeyKeepsHosts ==
    [][(/\ infPc \in {"handling", "storing"}
        /\ AddedOrUpdated
        /\ TypeAssert(cur.newObj)
        /\ ~Found(cur.newObj, HostsKey))
       => NginxPlusHosts' = NginxPlusHosts]_vars

\* C4: when the handler of Added(e) returns, HostList is what
\* handleUpdateEvent(e, nil) makes of the HostList the handler started from:
\* the stored slice if it stores one, the unchanged list if it does not.
C4_AddedAsUpdatedNil ==
    [][(HandlerReturns /\ cur.kind = "Added")
       => LET r == handleUpdateEvent(cur.newObj, NilObj)
          IN  /\ r.store = (infPc = "storing")
              /\ NginxPlusHosts' = IF r.store THEN r.hosts ELSE NginxPlusHosts]_vars

\* Added(e) with "nginx-hosts" in e has been handled and its list stored.
C4_Witness ==
    /\ infPc = "idle"
    /\ cur.kind = "Added"
    /\ Found(cur.newObj, HostsKey)
    /\ NginxPlusHosts = MakeSlice(Split(Lookup(cur.newObj, HostsKey)))
    /\ Len(NginxPlusHosts.ptr.arr) = 2

\* C5: in every reachable state HostList is a sequence and not nil.
C5_HostListNeverNil == ~NginxPlusHosts.ptr.isNil

\* C6: every value a concurrent reader loads is a fully formed slice, one
\* that some assignment (or the construction) produced as a whole.
C6_NoTornRead == observed.read => WellFormed(observed.val)

\* C7: Run has not returned unless the context is cancelled, and once the
\* context is cancelled while Run blocks, Run eventually returns.
C7_RunBlocksUntilCancelled ==
    /\ [](runPc = "returned" => ctxDone)
    /\ (runPc = "waiting" /\ ctxDone) ~> (runPc = "returned")

\* C8: once Run has returned, no step changes HostList.
C8_NoChangeAfterRunReturns ==
    [][runPc = "returned" => NginxPlusHosts' = NginxPlusHosts]_vars

\* C9: a panic of the watch-processing loop leaves the hosting process alive.
C9_PanicContained == infPc = "panicked" => procAlive

\* C10: the handler of an Added or Updated notification whose payload is no
\* ConfigMap changes nothing in HostList, returns to the informer's loop
\* without stopping it, and leaves the process alive.
C10_MalformedDiscarded ==
    [][(/\ infPc = "handling"
        /\ AddedOrUpdated
        /\ ~TypeAssert(cur.newObj))
       => /\ NginxPlusHosts' = NginxPlusHosts
          /\ infPc' \in {"handling", "idle"}
          /\ procAlive']_vars

\* An object that is no ConfigMap was added and discarded, and a later
\* ConfigMap with "nginx-hosts" has been handled and its list stored.
C10_Witness ==
    /\ NotConfigMap \in existing
    /\ infPc = "idle"
    /\ cur.kind = "Added"
    /\ Found(cur.newObj, HostsKey)
    /\ NginxPlusHosts = MakeSlice(Split(Lookup(cur.newObj, HostsKey)))

(* ------------------------------ properties: Initialize ----------------- *)

\* C11: Initialize asks the informer at most once.  When the informer
\* answers with an error, Initialize returns an error that wraps it and no
\* callback is registered; when it answers nil, Initialize returns nil and the
\* three callbacks are registered, once.
C11_InitializeRegistersOnce ==
    /\ Len(registration.answers) <= 1
    /\ (initPc = "new") = (registration.answers = <<>>)
    /\ registration.answers # <<>> =>
           IF registration.answers[1] = NilError
           THEN /\ initPc = "ok"
                /\ registration.err = NilError
                /\ registration.handlers = <<Handlers>>
                /\ Cardinality({Handlers.AddFunc, Handlers.UpdateFunc,
                                Handlers.DeleteFunc}) = 3
           ELSE /\ initPc = "failed"
                /\ registration.handlers = <<>>
                /\ Len(registration.err) > Len(registration.answers[1])
                /\ SubSeq(registration.err,
                          Len(registration.err) - Len(registration.answers[1]) + 1,
                          Len(registration.err)) = registration.answers[1]

\* Initialize has returned the error of a refused registration.
C11_Witness ==
    /\ initPc = "failed"
    /\ registration.answers = <<<<"handler was not added">>>>
    /\ registration.err # NilError

(* ------------------------------ properties: NewTlsConfig --------------- *)

\* name is among the calls NewTlsConfig made.
Called(name) == \E i \in 1..Len(returned.calls) : returned.calls[i] = name

\* The CA field starts with a block holding a well-formed certificate.
ValidCA ==
    /\ Certificates.ca # <<>>
    /\ Certificates.ca[1].Bytes \in CertificateDers

CertBlocks == SelectSeq(Certificates.clientCert, IsCertificateBlock)

KeyBlocks == SelectSeq(Certificates.clientKey, IsPrivateKeyBlock)

\* The client fields hold a well-formed certificate and a well-formed key.
ParsableClientPair ==
    /\ CertBlocks # <<>>
    /\ KeyBlocks # <<>>
    /\ CertBlocks[1].Bytes \in CertificateDers
    /\ KeyBlocks[1].Bytes \in PrivateKeyDers

\* ... and the key is the key of the certificate.
ValidClientPair ==
    /\ ParsableClientPair
    /\ PublicKeyOf(CertBlocks[1].Bytes) = PublicKeyOf(KeyBlocks[1].Bytes)

\* The client identity built from the client fields.
ClientIdentity ==
    <<[Certificate |-> [i \in 1..Len(CertBlocks) |-> CertBlocks[i].Bytes],
       PrivateKey |-> PublicKeyOf(KeyBlocks[1].Bytes)]>>

\* The two errors of the CA certificate and the error of a key that is not
\* the certificate's.
InvalidPEMError(err) ==
    err = <<"failed to decode PEM block containing CA certificate">>

CertificateParseError(err) ==
    /\ Len(err) > 1
    /\ err[1] = "error parsing certificate"

KeyPairMismatchError(err) ==
    err = <<"tls: private key does not match public key">>

\* C12: with mode "no-tls" NewTlsConfig returns no error and a configuration
\* that skips verification, has no trust roots set and no client
\* certificate, whatever the bundle holds, and reads no field of the bundle.
C12_NoTls ==
    (returned.called /\ TlsMode = "no-tls")
        => /\ returned.err = NilError
           /\ ~returned.config.isNil
           /\ returned.config.InsecureSkipVerify
           /\ returned.config.RootCAs = NilPool
           /\ returned.config.Certificates = <<>>
           /\ returned.calls = <<>>

\* "no-tls" was asked for with a malformed CA in the bundle.
C12_Witness ==
    /\ returned.called
    /\ TlsMode = "no-tls"
    /\ Certificates.ca # <<>>
    /\ Certificates.ca[1].Bytes = Junk
    /\ returned.config.InsecureSkipVerify

\* C13: with valid required material each known mode returns its row of the
\* table: verification never skipped; trust roots unset for ca-tls and
\* ca-mtls, exactly the supplied CA for ss-tls and ss-mtls; a client identity
\* exactly for ca-mtls and ss-mtls.
C13_ModeTable ==
    returned.called =>
        /\ TlsMode = "ca-tls" =>
               /\ returned.err = NilError
               /\ returned.config = Config(FALSE, NilPool, <<>>)
        /\ (TlsMode = "ca-mtls" /\ ValidClientPair) =>
               /\ returned.err = NilError
               /\ returned.config = Config(FALSE, NilPool, ClientIdentity)
        /\ (TlsMode = "ss-tls" /\ ValidCA) =>
               /\ returned.err = NilError
               /\ returned.config =
                      Config(FALSE, PoolOf(Certificates.ca[1].Bytes), <<>>)
        /\ (TlsMode = "ss-mtls" /\ ValidCA /\ ValidClientPair) =>
               /\ returned.err = NilError
               /\ returned.config =
                      Config(FALSE, PoolOf(Certificates.ca[1].Bytes),
                             ClientIdentity)

\* "ss-mtls" was asked for with a valid CA and a valid client pair.
C13_Witness ==
    /\ returned.called
    /\ TlsMode = "ss-mtls"
    /\ ValidCA
    /\ ValidClientPair
    /\ ~returned.config.isNil
    /\ Len(returned.config.Certificates) = 1

\* C14: every mode that is none of ss-tls, ss-mtls, ca-tls, ca-mtls gets,
\* with no error, the configuration of "no-tls"; and verification is skipped
\* for no other mode.
C14_DefaultBranch ==
    returned.called =>
        /\ TlsMode \notin KnownModes =>
               /\ returned.err = NilError
               /\ returned.config = Config(TRUE, NilPool, <<>>)
        /\ returned.config.InsecureSkipVerify => TlsMode \notin KnownModes

\* A misspelt mode was asked for.
C14_Witness ==
    /\ returned.called
    /\ TlsMode = "ss-tsl"
    /\ returned.config.InsecureSkipVerify

\* C15: with mode "ss-tls" and a CA field with no PEM block NewTlsConfig
\* returns the decode error, with a first block that is no certificate the
\* parse error, and in both cases a nil configuration.
C15_SsTlsMalformedCA ==
    (returned.called /\ TlsMode = "ss-tls" /\ ~ValidCA)
        => /\ returned.config = NilConfig
           /\ IF Certificates.ca = <<>>
              THEN InvalidPEMError(returned.err)
              ELSE CertificateParseError(returned.err)

\* "ss-tls" was asked for with a CA field that holds no PEM block.
C15_Witness ==
    /\ returned.called
    /\ TlsMode = "ss-tls"
    /\ Certificates.ca = <<>>
    /\ returned.config.isNil

\* C16: with mode "ss-mtls", a valid CA and a client key that is not the key
\* of the client certificate, NewTlsConfig returns the mismatch error of
\* tls.X509KeyPair, unwrapped, and a nil configuration.
C16_SsMtlsKeyMismatch ==
    (/\ returned.called
     /\ TlsMode = "ss-mtls"
     /\ ValidCA
     /\ ParsableClientPair
     /\ ~ValidClientPair)
        => /\ returned.config = NilConfig
           /\ KeyPairMismatchError(returned.err)
           /\ Called("tls.X509KeyPair")

\* "ss-mtls" was asked for with the certificate of B and the key of A.
C16_Witness ==
    /\ returned.called
    /\ TlsMode = "ss-mtls"
    /\ ValidCA
    /\ ParsableClientPair
    /\ ~ValidClientPair
    /\ returned.config.isNil

\* C18: NewTlsConfig returns a configuration or an error, never both and
\* never neither; no-tls, ca-tls and unknown modes return no error; ca-mtls
\* fails exactly when the client pair is not valid, whatever the CA field
\* holds; an error of the CA certificate comes only from ss-tls and ss-mtls.
C18_ConfigOrError ==
    returned.called =>
        /\ returned.config.isNil = (returned.err # NilError)
        /\ TlsMode \notin {"ca-mtls", "ss-tls", "ss-mtls"} =>
               returned.err = NilError
        /\ TlsMode = "ca-mtls" =>
               /\ (returned.err # NilError) = ~ValidClientPair
               /\ ~Called("GetCACertificate")
        /\ (InvalidPEMError(returned.err) \/ CertificateParseError(returned.err))
               => TlsMode \in {"ss-tls", "ss-mtls"}
        /\ (TlsMode \in {"ss-tls", "ss-mtls"} /\ ~ValidCA) =>
               returned.err # NilError

\* "ca-mtls" failed on the client pair while the CA field is malformed.
C18_Witness ==
    /\ returned.called
    /\ TlsMode = "ca-mtls"
    /\ ~ValidCA
    /\ ~ValidClientPair
    /\ returned.err # NilError
    /\ returned.config.isNil

\* C19: with mode "ss-mtls" and a malformed CA, whatever the client pair
\* holds (an invalid pair included), the error returned is the error of the
\* CA certificate, the CA was fetched first, and the client certificate and
\* key were neither fetched nor parsed.
C19_CaBeforeClient ==
    (returned.called /\ TlsMode = "ss-mtls" /\ ~ValidCA)
        => /\ InvalidPEMError(returned.err) \/ CertificateParseError(returned.err)
           /\ ~Called("tls.X509KeyPair")
           /\ ~Called("GetClientCertificate")
           /\ returned.calls[1] = "GetCACertificate"

\* "ss-mtls" was asked for with a malformed CA and an invalid client pair.
C19_Witness ==
    /\ returned.called
    /\ TlsMode = "ss-mtls"
    /\ ~ValidCA
    /\ ~ValidClientPair
    /\ returned.err # NilError

(* ------------------------------ properties: HostList ------------------- *)

\* cur carries a ConfigMap with "nginx-hosts": an event the list is to follow.
Accepted ==
    /\ AddedOrUpdated
    /\ TypeAssert(cur.newObj)
    /\ Found(cur.newObj, HostsKey)

\* C17: HostList is decided by the most recent state-changing notification
\* alone.  It changes only inside a handler; the handler of a notification
\* that is to be discarded never changes it; the handler of an accepted
\* Added or Updated carrying "nginx-hosts" = s leaves exactly split(s, ",");
\* the handler of a Deleted leaves the empty list.
C17_LastEventDecides ==
    [][IF infPc \in {"handling", "storing"}
       THEN /\ (AddedOrUpdated /\ ~Accepted) => NginxPlusHosts' = NginxPlusHosts
            /\ (HandlerReturns /\ Accepted) =>
                   NginxPlusHosts' = MakeSlice(Split(Lookup(cur.newObj, HostsKey)))
            /\ (HandlerReturns /\ cur.kind = "Deleted") =>
                   NginxPlusHosts' = MakeSlice(<<>>)
       ELSE NginxPlusHosts' = NginxPlusHosts]_vars

====
